---- MODULE Spec2Model ----
(***************************************************************************)
(* Model of the WhatsApp <-> Gemini relay (FastAPI application).           *)
(*                                                                         *)
(*   src/app.py                      routes, handle_webhook                *)
(*   src/handlers/webhook_handler.py verify_webhook, process_webhook       *)
(*   src/services/gemini_client.py   GeminiChatSession, ChatSessionManager *)
(*   src/services/twilio_service.py  TwilioWhatsAppClient                  *)
(*                                                                         *)
(* Text is a sequence of one-character strings, so that startswith,        *)
(* replace, lstrip and int() are computed character by character.          *)
(* Form fields are text values (x-www-form-urlencoded, app.py:114-115).    *)
(***************************************************************************)
EXTENDS Integers, Sequences, FiniteSets, TLC

(***************************************************************************)
(* Bounds of the model.                                                    *)
(***************************************************************************)
\* number of POST /webhook deliveries that can be in flight together
MaxReqs == 2
\* number of GeminiChatSession objects constructed in one behaviour
MaxSessions == 3
\* the number of times the normalization of a recipient is applied in a row
MaxApply == 2

Reqs == 1..MaxReqs

(***************************************************************************)
(* Python values.                                                          *)
(***************************************************************************)
\* None: a one-element sequence no text can equal (text has 1-char elements)
PyNone == <<"<None>">>
\* a key that is not in the mapping
Absent == <<"<absent>">>

Truthy(v) == v # PyNone /\ v # <<>>

DictGet(d, k, default) == IF k \in DOMAIN d THEN d[k] ELSE default

StartsWith(s, p) == Len(s) >= Len(p) /\ SubSeq(s, 1, Len(p)) = p

RECURSIVE Replace(_, _)
\* s.replace(old, ""): every non-overlapping occurrence, left to right
Replace(s, old) ==
    IF s = <<>> THEN <<>>
    ELSE IF StartsWith(s, old) THEN Replace(SubSeq(s, Len(old) + 1, Len(s)), old)
    ELSE <<Head(s)>> \o Replace(Tail(s), old)

RECURSIVE LStrip(_, _)
\* s.lstrip(chars)
LStrip(s, chars) ==
    IF s # <<>> /\ Head(s) \in chars THEN LStrip(Tail(s), chars) ELSE s

RECURSIVE RStrip(_, _)
RStrip(s, chars) ==
    IF s # <<>> /\ s[Len(s)] \in chars THEN RStrip(SubSeq(s, 1, Len(s) - 1), chars) ELSE s

Digits == {"0", "1", "2", "3", "4", "5", "6", "7", "8", "9"}

DigitVal(c) ==
    CASE c = "0" -> 0 [] c = "1" -> 1 [] c = "2" -> 2 [] c = "3" -> 3 [] c = "4" -> 4
      [] c = "5" -> 5 [] c = "6" -> 6 [] c = "7" -> 7 [] c = "8" -> 8 [] c = "9" -> 9

\* the text int() parses after stripping white space and one sign
IntBody(s) ==
    LET t == RStrip(LStrip(s, {" "}), {" "})
    IN  IF t # <<>> /\ Head(t) \in {"+", "-"} THEN Tail(t) ELSE t

\* int(s) does not raise ValueError: digits, single underscores between digits
IntOk(s) ==
    LET u == IntBody(s)
    IN  /\ u # <<>>
        /\ \A i \in 1..Len(u) : u[i] \in Digits \cup {"_"}
        /\ u[1] \in Digits
        /\ u[Len(u)] \in Digits
        /\ \A i \in 1..(Len(u) - 1) : ~(u[i] = "_" /\ u[i + 1] = "_")

RECURSIVE DigitsVal(_, _)
DigitsVal(u, acc) ==
    IF u = <<>> THEN acc
    ELSE IF Head(u) = "_" THEN DigitsVal(Tail(u), acc)
    ELSE DigitsVal(Tail(u), 10 * acc + DigitVal(Head(u)))

\* int(s), for s with IntOk(s)
IntVal(s) ==
    LET t == RStrip(LStrip(s, {" "}), {" "})
        v == DigitsVal(IntBody(s), 0)
    IN  IF Head(t) = "-" THEN 0 - v ELSE v

(***************************************************************************)
(* Texts used as inputs.                                                   *)
(***************************************************************************)
WA == <<"w", "h", "a", "t", "s", "a", "p", "p", ":">>
Num1 == <<"+", "1">>
Num2 == <<"+", "2">>
SM1 == <<"S", "M", "1">>
Hello == <<"h", "i">>
UrlA == <<"u", "a">>
UrlB == <<"u", "b">>
UrlC == <<"u", "c">>

\* f"MediaUrl{i}"
MediaKey(i) ==
    CASE i = 0 -> "MediaUrl0" [] i = 1 -> "MediaUrl1" [] i = 2 -> "MediaUrl2"
      [] OTHER -> "MediaUrlN"

\* one inbound delivery: the form fields that are present
Mapping(sid, frm, body, num, u0, u1, u2) ==
    LET all == [MessageSid |-> sid, From |-> frm, Body |-> body, NumMedia |-> num,
                MediaUrl0 |-> u0, MediaUrl1 |-> u1, MediaUrl2 |-> u2]
        keys == {k \in DOMAIN all : all[k] # Absent}
    IN  [k \in keys |-> all[k]]

(***************************************************************************)
(* process_webhook (webhook_handler.py:54-131).                            *)
(***************************************************************************)
RECURSIVE CollectMediaUntilAbsent(_, _, _)
\* variant of CollectMedia: the loop ends at the first index without a URL
CollectMediaUntilAbsent(data, i, n) ==
    IF i >= n THEN <<>>
    ELSE LET media_url == IF MediaKey(i) \in DOMAIN data THEN data[MediaKey(i)] ELSE PyNone
         IN  IF media_url # PyNone /\ media_url # <<>>
             THEN <<media_url>> \o CollectMediaUntilAbsent(data, i + 1, n)
             ELSE <<>>

RECURSIVE CollectMedia(_, _, _)
\* for i in range(num_media): append data.get(f"MediaUrl{i}") when truthy
CollectMedia(data, i, n) ==
    IF i >= n THEN <<>>
    ELSE LET media_url == DictGet(data, MediaKey(i), PyNone)
         IN  (IF Truthy(media_url) THEN <<media_url>> ELSE <<>>)
                 \o CollectMedia(data, i + 1, n)

\* variant of StripPrefix: the address is kept as it came
StripPrefixKeeps(addr) == addr

StripPrefix(addr) == IF StartsWith(addr, WA) THEN Replace(addr, WA) ELSE addr

\* variant of CoerceNumMedia: a count that is no number is taken as one
CoerceNumMediaOne(num_media_str) ==
    IF IntOk(num_media_str) THEN IntVal(num_media_str) ELSE 1

CoerceNumMedia(num_media_str) ==
    IF IntOk(num_media_str) THEN IntVal(num_media_str) ELSE 0

\* variant of IsIncomplete: only the message id is required
IsIncompleteSidOnly(message_sid, from_number) == ~Truthy(message_sid)

\* line 92: if not message_sid or not from_number
IsIncomplete(message_sid, from_number) ==
    ~Truthy(message_sid) \/ ~Truthy(from_number)

\* variant of MessageType: every message is a text message
MessageTypeText(media_urls) == "text"

MessageType(media_urls) == IF media_urls # <<>> THEN "media" ELSE "text"

process_webhook(data) ==
    LET message_sid == DictGet(data, "MessageSid", PyNone)
        account_sid == DictGet(data, "AccountSid", PyNone)
        from_number == StripPrefix(DictGet(data, "From", <<>>))
        to_number == StripPrefix(DictGet(data, "To", <<>>))
        message_body == DictGet(data, "Body", <<>>)
        num_media == CoerceNumMedia(DictGet(data, "NumMedia", <<"0">>))
        timestamp == DictGet(data, "Timestamp", <<>>)
        media_urls == IF num_media > 0 THEN CollectMedia(data, 0, num_media) ELSE <<>>
        message_type == MessageType(media_urls)
    IN  IF IsIncomplete(message_sid, from_number)
        THEN [status |-> "ignored", type |-> "invalid_data"]
        ELSE [status |-> "success",
              sender_id |-> from_number,
              message_type |-> message_type,
              timestamp |-> timestamp,
              message_sid |-> message_sid,
              account_sid |-> account_sid,
              message_body |-> message_body,
              media_urls |-> media_urls,
              raw_message |-> [from |-> from_number, to |-> to_number,
                               type |-> message_type,
                               text |-> IF message_type = "text"
                                        THEN message_body ELSE PyNone,
                               message_sid |-> message_sid]]

(***************************************************************************)
(* State.                                                                  *)
(***************************************************************************)
VARIABLES
    sessions,       \* ChatSessionManager.sessions: user id -> session object
    instances,      \* the GeminiChatSession objects constructed so far
    twilio_client,  \* app.twilio_client: TRUE, or FALSE for None
    reqs,           \* the handle_webhook coroutines, one per delivery slot
    last,           \* the last call on the ChatSessionManager and its result
    VERIFY_TOKEN,   \* Config.VERIFY_TOKEN
    vreq, vresp,    \* a GET /webhook request and its response
    norm_in, norm_out,  \* an argument of process_webhook and its result
    addr_in, addr_out,  \* a recipient number and its successive normalizations
    environ,        \* os.environ after load_dotenv()
    started,        \* the import of the app module: "no", "failed", "running"
    health          \* the last response of GET /health

\* the state of the address, start-up and health checks
more == <<addr_in, addr_out, environ, started, health>>

vars == <<sessions, instances, twilio_client, reqs, last, VERIFY_TOKEN,
          vreq, vresp, norm_in, norm_out, more>>

Users == {Num1, Num2}

NoMapping == Mapping(Absent, Absent, Absent, Absent, Absent, Absent, Absent)
NoResult == [status |-> "none"]
NoResponse == [code |-> 0]
NoCall == [op |-> "none"]

\* the five required variables (config.py:36-42)
RequiredVars ==
    {"VERIFY_TOKEN", "GEMINI_API_KEY", "TWILIO_ACCOUNT_SID", "TWILIO_AUTH_TOKEN",
     "TWILIO_WHATSAPP_NUMBER"}

\* the value of a variable that is set
EnvValue == <<"v">>

\* the application has started with every required variable set
InitMore ==
    /\ addr_in = <<>>
    /\ addr_out = <<>>
    /\ environ = [k \in RequiredVars |->
                     IF k = "VERIFY_TOKEN" THEN VERIFY_TOKEN ELSE EnvValue]
    /\ started = "running"
    /\ health = NoResponse

IdleReq ==
    [pc |-> "idle", data |-> NoMapping, webhook_data |-> NoResult,
     chat_session |-> 0, ai_response |-> PyNone, lm_calls |-> <<>>,
     sent |-> <<>>, response |-> NoResponse]

(***************************************************************************)
(* verify_webhook (webhook_handler.py:14-51) and GET /webhook              *)
(* (app.py:83-105).                                                        *)
(***************************************************************************)
Secret == <<"s", "3">>
Other == <<"s", "4">>
Sig == <<"s", "i", "g">>
Xyz == <<"x", "y", "z">>
Ok == <<"o", "k">>

\* a GET /webhook request: its headers and query parameters that are present
VerifyRequest(sig, token, challenge) ==
    LET h == ("X-Twilio-Signature" :> sig)
        q == ("hub.verify_token" :> token) @@ ("hub.challenge" :> challenge)
    IN  [headers |-> [k \in {k \in DOMAIN h : h[k] # Absent} |-> h[k]],
         query_params |-> [k \in {k \in DOMAIN q : q[k] # Absent} |-> q[k]]]

\* variant of TokenMatches: any token that is present is accepted
TokenPresent(token_param, verify_token) == Truthy(token_param)

\* line 43: token_param == Config.VERIFY_TOKEN
TokenMatches(token_param, verify_token) == token_param = verify_token

\* variant of Echo: the challenge is not echoed
EchoOk(challenge) == Ok

\* line 46: challenge or "ok"
Echo(challenge) == IF Truthy(challenge) THEN challenge ELSE Ok

\* the value returned, or the HTTPException raised
verify_webhook(request, verify_token) ==
    LET x_twilio_signature == DictGet(request.headers, "X-Twilio-Signature", PyNone)
        token_param == DictGet(request.query_params, "hub.verify_token", PyNone)
        challenge == DictGet(request.query_params, "hub.challenge", <<>>)
    IN  IF Truthy(x_twilio_signature)
        THEN [raised |-> FALSE, value |-> Ok]
        ELSE IF TokenMatches(token_param, verify_token)
        THEN [raised |-> FALSE, value |-> Echo(challenge)]
        ELSE [raised |-> TRUE, status_code |-> 403]

verify_webhook_endpoint(request, verify_token) ==
    LET result == verify_webhook(request, verify_token)
    IN  IF result.raised
        THEN [code |-> result.status_code, body |-> <<>>]
        ELSE [code |-> 200, body |-> result.value]

VerifyRequests ==
    {VerifyRequest(s, t, c) : s \in {Absent, <<>>, Sig},
                              t \in {Absent, <<>>, Secret, Other},
                              c \in {Absent, <<>>, Xyz}}

\* GET /webhook is served
VerifyWebhook ==
    /\ vresp = NoResponse
    /\ vresp' = verify_webhook_endpoint(vreq, VERIFY_TOKEN)
    /\ UNCHANGED <<sessions, instances, twilio_client, reqs, last, VERIFY_TOKEN,
                   vreq, norm_in, norm_out, more>>

InitVerify ==
    /\ sessions = <<>>
    /\ instances = <<>>
    /\ twilio_client = TRUE
    /\ reqs = [r \in Reqs |-> IdleReq]
    /\ last = NoCall
    /\ VERIFY_TOKEN \in {Secret, Other}
    /\ vreq \in VerifyRequests
    /\ vresp = NoResponse
    /\ norm_in = NoMapping
    /\ norm_out = NoResult
    /\ InitMore

NextVerify == VerifyWebhook

SpecVerify == InitVerify /\ [][NextVerify]_vars

(***************************************************************************)
(* process_webhook applied to every mapping of a bounded family.           *)
(***************************************************************************)
NormMappings ==
    {Mapping(sid, frm, body, num, u0, u1, u2) :
        sid \in {Absent, <<>>, SM1},
        frm \in {Absent, <<>>, WA, Num1, WA \o Num1, WA \o WA \o Num1, <<"1">>},
        body \in {Absent, <<>>, Hello},
        num \in {Absent, <<"0">>, <<"1">>, <<"2">>, <<" ", "2">>, <<"-", "1">>, <<"x">>},
        u0 \in {Absent, <<>>, UrlA},
        u1 \in {Absent, UrlB},
        u2 \in {Absent, UrlC}}

ProcessWebhook ==
    /\ norm_out = NoResult
    /\ norm_out' = process_webhook(norm_in)
    /\ UNCHANGED <<sessions, instances, twilio_client, reqs, last, VERIFY_TOKEN,
                   vreq, vresp, norm_in, more>>

InitNorm ==
    /\ sessions = <<>>
    /\ instances = <<>>
    /\ twilio_client = TRUE
    /\ reqs = [r \in Reqs |-> IdleReq]
    /\ last = NoCall
    /\ VERIFY_TOKEN = Secret
    /\ vreq = VerifyRequest(Absent, Absent, Absent)
    /\ vresp = NoResponse
    /\ norm_in \in NormMappings
    /\ norm_out = NoResult
    /\ InitMore

NextNorm == ProcessWebhook

SpecNorm == InitNorm /\ [][NextNorm]_vars

(***************************************************************************)
(* ChatSessionManager (gemini_client.py:121-176).  A session object is     *)
(* named by its index in instances.                                        *)
(***************************************************************************)
\* GeminiChatSession.__init__ returning normally
GeminiChatSession(user_id) == [user_id |-> user_id]

\* self.sessions[user_id] = session
SetItem(d, k, v) == [x \in DOMAIN d \cup {k} |-> IF x = k THEN v ELSE d[x]]

\* del self.sessions[user_id]
DelItem(d, k) == [x \in DOMAIN d \ {k} |-> d[x]]

\* variant of get_or_create_session: a session is constructed on every call
get_or_create_session_always_new(user_id) ==
    /\ Len(instances) < MaxSessions
    /\ instances' = Append(instances, GeminiChatSession(user_id))
    /\ sessions' = SetItem(sessions, user_id, Len(instances) + 1)
    /\ last' = [op |-> "get_or_create_session", user_id |-> user_id,
                raised |-> FALSE, result |-> sessions'[user_id]]

\* get_or_create_session(user_id) when the constructor, if run, returns
get_or_create_session(user_id) ==
    /\ IF user_id \notin DOMAIN sessions
       THEN /\ Len(instances) < MaxSessions
            /\ instances' = Append(instances, GeminiChatSession(user_id))
            /\ sessions' = SetItem(sessions, user_id, Len(instances) + 1)
       ELSE UNCHANGED <<sessions, instances>>
    /\ last' = [op |-> "get_or_create_session", user_id |-> user_id,
                raised |-> FALSE, result |-> sessions'[user_id]]

\* get_or_create_session(user_id) when the constructor raises
get_or_create_session_raises(user_id) ==
    /\ user_id \notin DOMAIN sessions
    /\ last' = [op |-> "get_or_create_session", user_id |-> user_id,
                raised |-> TRUE, result |-> 0]
    /\ UNCHANGED <<sessions, instances>>

\* get_session(user_id): the session, or 0 for None
get_session(user_id) ==
    /\ last' = [op |-> "get_session", user_id |-> user_id, raised |-> FALSE,
                result |-> DictGet(sessions, user_id, 0)]
    /\ UNCHANGED <<sessions, instances>>

\* variant of delete_session: a known id empties the registry
delete_session_drop_all(user_id) ==
    /\ IF user_id \in DOMAIN sessions
       THEN /\ sessions' = <<>>
            /\ last' = [op |-> "delete_session", user_id |-> user_id,
                        raised |-> FALSE, result |-> TRUE]
       ELSE /\ sessions' = sessions
            /\ last' = [op |-> "delete_session", user_id |-> user_id,
                        raised |-> FALSE, result |-> FALSE]
    /\ UNCHANGED instances

delete_session(user_id) ==
    /\ IF user_id \in DOMAIN sessions
       THEN /\ sessions' = DelItem(sessions, user_id)
            /\ last' = [op |-> "delete_session", user_id |-> user_id,
                        raised |-> FALSE, result |-> TRUE]
       ELSE /\ sessions' = sessions
            /\ last' = [op |-> "delete_session", user_id |-> user_id,
                        raised |-> FALSE, result |-> FALSE]
    /\ UNCHANGED instances

clear_all_sessions ==
    /\ sessions' = <<>>
    /\ last' = [op |-> "clear_all_sessions", user_id |-> <<>>, raised |-> FALSE,
                result |-> 0]
    /\ UNCHANGED instances

MgrFrame ==
    UNCHANGED <<twilio_client, reqs, VERIFY_TOKEN, vreq, vresp, norm_in, norm_out, more>>

MgrGetOrCreate == \E u \in Users : get_or_create_session(u) /\ MgrFrame
MgrGetOrCreateRaises == \E u \in Users : get_or_create_session_raises(u) /\ MgrFrame
MgrGet == \E u \in Users : get_session(u) /\ MgrFrame
MgrDelete == \E u \in Users : delete_session(u) /\ MgrFrame
MgrClear == clear_all_sessions /\ MgrFrame

InitMgr ==
    /\ sessions = <<>>
    /\ instances = <<>>
    /\ twilio_client = TRUE
    /\ reqs = [r \in Reqs |-> IdleReq]
    /\ last = NoCall
    /\ VERIFY_TOKEN = Secret
    /\ vreq = VerifyRequest(Absent, Absent, Absent)
    /\ vresp = NoResponse
    /\ norm_in = NoMapping
    /\ norm_out = NoResult
    /\ InitMore

NextMgr ==
    \/ MgrGetOrCreate
    \/ MgrGetOrCreateRaises
    \/ MgrGet
    \/ MgrDelete
    \/ MgrClear

SpecMgr == InitMgr /\ [][NextMgr]_vars

(***************************************************************************)
(* TwilioWhatsAppClient.send_text_message (twilio_service.py:57-123).      *)
(***************************************************************************)
\* the destination address passed to messages.create (lines 78-82)
\* variant of NormalizeRecipient: the prefix is put in front of every number
NormalizeRecipientAlways(recipient_number) ==
    WA \o <<"+">> \o LStrip(recipient_number, {"+"})

NormalizeRecipient(recipient_number) ==
    IF /\ ~StartsWith(recipient_number, WA \o <<"+">>)
       /\ ~StartsWith(recipient_number, <<"+">>)
    THEN WA \o <<"+">> \o LStrip(recipient_number, {"+"})
    ELSE IF StartsWith(recipient_number, <<"+">>)
    THEN WA \o recipient_number
    ELSE recipient_number

\* one call of messages.create: its arguments and whether it returned
SendAttempt(recipient_number, message_body, ok) ==
    [to |-> NormalizeRecipient(recipient_number), body |-> message_body, ok |-> ok]

(***************************************************************************)
(* POST /webhook: handle_webhook (app.py:108-210).                         *)
(*                                                                         *)
(* handle_webhook is a coroutine on the server's event loop.  It is        *)
(* suspended only in `await request.form()`; from there to its return it   *)
(* makes plain blocking calls, so no other coroutine runs in between.      *)
(***************************************************************************)
Apology == <<"D", "e", "s", "c", "u", "l", "p", "e">>
Reply == <<"r", "e">>

\* body, media count and first media URL of a delivery
Contents ==
    {<<Hello, Absent, Absent>>, <<<<>>, <<"0">>, Absent>>,
     <<Hello, <<"1">>, UrlA>>, <<Hello, <<"2">>, Absent>>}

\* the deliveries the application is sent: messages of two users, and
\* deliveries without a message id or without a sender
AppMappings ==
    {Mapping(SM1, frm, c[1], c[2], c[3], Absent, Absent) :
        frm \in {WA \o Num1, WA \o Num2}, c \in Contents}
    \cup {Mapping(sid, WA \o Num1, c[1], c[2], c[3], Absent, Absent) :
        sid \in {Absent, <<>>}, c \in {<<Hello, Absent, Absent>>, <<Hello, <<"1">>, UrlA>>}}
    \cup {Mapping(SM1, frm, Hello, Absent, Absent, Absent, Absent) :
        frm \in {Absent, <<>>, WA}}

\* the positions between the return of request.form() and the return of
\* handle_webhook
SyncPcs == {"get_session", "construct", "ai", "send"}

\* variant of CanResume: handlers run in parallel threads
CanResumeAnytime == TRUE

\* the event loop can resume a suspended coroutine: none is running
CanResume == \A q \in Reqs : reqs[q].pc \notin SyncPcs

\* return {"status": ..., "message": ...}: FastAPI answers 200 with the JSON
Ack(status, message) ==
    [code |-> 200, status |-> status, message |-> message, detail |-> ""]

\* variant of AckCritical: the exception leaves handle_webhook
AckEscapes(e) ==
    [code |-> 500, status |-> "none", message |-> "Internal Server Error", detail |-> e]

\* the outermost except Exception (lines 199-206)
AckCritical(e) ==
    [code |-> 200, status |-> "error", message |-> "Erro critico", detail |-> e]

Return(r, response) ==
    reqs' = [reqs EXCEPT ![r].pc = "done", ![r].response = response]

AppFrame ==
    UNCHANGED <<twilio_client, last, VERIFY_TOKEN, vreq, vresp, norm_in, norm_out, more>>

\* a delivery arrives: handle_webhook starts and awaits the form
Arrive(r) ==
    /\ reqs[r].pc = "idle"
    /\ reqs' = [reqs EXCEPT ![r].pc = "form"]
    /\ UNCHANGED <<sessions, instances>>
    /\ AppFrame

\* request.form() raises
FormRaises(r) ==
    /\ reqs[r].pc = "form"
    /\ CanResume
    /\ Return(r, AckCritical("form"))
    /\ UNCHANGED <<sessions, instances>>
    /\ AppFrame

\* lines 126-158 and 191-197: the form is read and normalized
Receive(r, data) ==
    /\ reqs[r].pc = "form"
    /\ CanResume
    /\ LET webhook_data == process_webhook(data)
           got == [reqs EXCEPT ![r].data = data, ![r].webhook_data = webhook_data]
           ret(response) ==
               reqs' = [got EXCEPT ![r].pc = "done", ![r].response = response]
       IN  IF webhook_data.status = "ignored"
           THEN ret(Ack("success", "Evento ignorado"))
           ELSE IF webhook_data.status = "error"
           THEN ret([code |-> 200, status |-> "error",
                     message |-> "Erro ao processar", detail |-> "detail"])
           ELSE IF webhook_data.message_type = "text" /\ Truthy(webhook_data.message_body)
           THEN IF ~Truthy(webhook_data.sender_id)
                THEN ret(Ack("success", "Mensagem vazia"))
                ELSE reqs' = [got EXCEPT ![r].pc = "get_session"]
           ELSE IF webhook_data.message_type = "media"
           THEN ret(Ack("success", "Midia recebida"))
           ELSE ret(Ack("success", "Tipo de mensagem nao suportado"))
    /\ UNCHANGED <<sessions, instances>>
    /\ AppFrame

\* gemini_client.py:139: if user_id not in self.sessions
CheckSession(r) ==
    /\ reqs[r].pc = "get_session"
    /\ LET user_id == reqs[r].webhook_data.sender_id
       IN  IF user_id \notin DOMAIN sessions
           THEN reqs' = [reqs EXCEPT ![r].pc = "construct"]
           ELSE reqs' = [reqs EXCEPT ![r].pc = "ai",
                                     ![r].chat_session = sessions[user_id]]
    /\ UNCHANGED <<sessions, instances>>
    /\ AppFrame

\* gemini_client.py:140-143: the session is constructed, stored and returned
Construct(r) ==
    /\ reqs[r].pc = "construct"
    /\ Len(instances) < MaxSessions
    /\ LET user_id == reqs[r].webhook_data.sender_id
       IN  /\ instances' = Append(instances, GeminiChatSession(user_id))
           /\ sessions' = SetItem(sessions, user_id, Len(instances) + 1)
           /\ reqs' = [reqs EXCEPT ![r].pc = "ai",
                                   ![r].chat_session = sessions'[user_id]]
    /\ AppFrame

\* variant of ConstructRaises: the user id is registered before the
\* constructor is called, and the entry stays when it raises
ConstructRaisesStored(r) ==
    /\ reqs[r].pc = "construct"
    /\ Len(instances) < MaxSessions
    /\ Return(r, AckCritical("session"))
    /\ instances' = Append(instances, GeminiChatSession(reqs[r].webhook_data.sender_id))
    /\ sessions' = SetItem(sessions, reqs[r].webhook_data.sender_id, Len(instances) + 1)
    /\ AppFrame

\* the constructor raises: the exception leaves get_or_create_session and
\* reaches the outermost except of handle_webhook
ConstructRaises(r) ==
    /\ reqs[r].pc = "construct"
    /\ Return(r, AckCritical("session"))
    /\ UNCHANGED <<sessions, instances>>
    /\ AppFrame

\* one call of chat_session.send_message: its session, its argument and
\* whether it raised
LmCall(r, raised) ==
    [session |-> reqs[r].chat_session,
     message |-> reqs[r].webhook_data.message_body, raised |-> raised]

\* lines 166-169: chat_session.send_message returns response.text or ""
SendMessage(r, text) ==
    /\ reqs[r].pc = "ai"
    /\ reqs' = [reqs EXCEPT ![r].pc = "send", ![r].ai_response = text,
                            ![r].lm_calls = Append(@, LmCall(r, FALSE))]
    /\ UNCHANGED <<sessions, instances>>
    /\ AppFrame

\* str(e) of the exception raised by chat_session.send_message
ErrorText == <<"e", "r", "r">>

\* variant of SendMessageRaises: the text of the exception becomes the reply
SendMessageRaisesLeaks(r) ==
    /\ reqs[r].pc = "ai"
    /\ reqs' = [reqs EXCEPT ![r].pc = "send", ![r].ai_response = ErrorText,
                            ![r].lm_calls = Append(@, LmCall(r, TRUE))]
    /\ UNCHANGED <<sessions, instances>>
    /\ AppFrame

\* variant of SendMessageRaises: the failure ends the request
SendMessageRaisesAbort(r) ==
    /\ reqs[r].pc = "ai"
    /\ reqs' = [reqs EXCEPT ![r].pc = "done",
                            ![r].lm_calls = Append(@, LmCall(r, TRUE)),
                            ![r].response = AckCritical("gemini")]
    /\ UNCHANGED <<sessions, instances>>
    /\ AppFrame

\* lines 170-174: chat_session.send_message raises
SendMessageRaises(r) ==
    /\ reqs[r].pc = "ai"
    /\ reqs' = [reqs EXCEPT ![r].pc = "send", ![r].ai_response = Apology,
                            ![r].lm_calls = Append(@, LmCall(r, TRUE))]
    /\ UNCHANGED <<sessions, instances>>
    /\ AppFrame

\* variant of SendReply: a failed send is tried again
SendReplyRetry(r, ok) ==
    /\ reqs[r].pc = "send"
    /\ twilio_client
    /\ LET attempt == SendAttempt(reqs[r].webhook_data.sender_id,
                                  reqs[r].ai_response, ok)
       IN  reqs' = [reqs EXCEPT ![r].pc = IF ok \/ Len(reqs[r].sent) >= 1
                                          THEN "done" ELSE "send",
                                ![r].response =
                                    IF ok THEN Ack("success", "Mensagem processada")
                                    ELSE IF Len(reqs[r].sent) >= 1
                                    THEN [code |-> 200, status |-> "error",
                                          message |-> "Falha ao enviar",
                                          detail |-> "twilio"]
                                    ELSE NoResponse,
                                ![r].sent = Append(@, attempt)]
    /\ UNCHANGED <<sessions, instances>>
    /\ AppFrame

\* lines 177-189: the reply is sent through Twilio
SendReply(r, ok) ==
    /\ reqs[r].pc = "send"
    /\ twilio_client
    /\ LET attempt == SendAttempt(reqs[r].webhook_data.sender_id,
                                  reqs[r].ai_response, ok)
           response == IF ok THEN Ack("success", "Mensagem processada")
                       ELSE [code |-> 200, status |-> "error",
                             message |-> "Falha ao enviar", detail |-> "twilio"]
       IN  reqs' = [reqs EXCEPT ![r].pc = "done", ![r].response = response,
                                ![r].sent = Append(@, attempt)]
    /\ UNCHANGED <<sessions, instances>>
    /\ AppFrame

\* lines 185-187: twilio_client is None
NoTwilio(r) ==
    /\ reqs[r].pc = "send"
    /\ ~twilio_client
    /\ Return(r, Ack("warning", "Twilio nao disponivel"))
    /\ UNCHANGED <<sessions, instances>>
    /\ AppFrame

\* variant of Finish: the session of the sender is deleted with the request
FinishDrops(r) ==
    /\ reqs[r].pc = "done"
    /\ reqs' = [reqs EXCEPT ![r] = IdleReq]
    /\ sessions' = IF reqs[r].chat_session # 0
                   THEN DelItem(sessions, reqs[r].webhook_data.sender_id)
                   ELSE sessions
    /\ UNCHANGED instances
    /\ AppFrame

\* the response has been written; the slot serves the next delivery
Finish(r) ==
    /\ reqs[r].pc = "done"
    /\ reqs' = [reqs EXCEPT ![r] = IdleReq]
    /\ UNCHANGED <<sessions, instances>>
    /\ AppFrame

\* GET /health (app.py:218-230): a coroutine without await
HealthCheck ==
    /\ started = "running"
    /\ CanResume
    /\ health' = [code |-> 200, status |-> "ok",
                  active_sessions |-> Cardinality(DOMAIN sessions)]
    /\ UNCHANGED <<sessions, instances, twilio_client, reqs, last, VERIFY_TOKEN,
                   vreq, vresp, norm_in, norm_out, addr_in, addr_out, environ,
                   started>>

Init ==
    /\ sessions = <<>>
    /\ instances = <<>>
    /\ twilio_client \in BOOLEAN
    /\ reqs = [r \in Reqs |-> IdleReq]
    /\ last = NoCall
    /\ VERIFY_TOKEN = Secret
    /\ vreq = VerifyRequest(Absent, Absent, Absent)
    /\ vresp = NoResponse
    /\ norm_in = NoMapping
    /\ norm_out = NoResult
    /\ InitMore

Next ==
    \/ \E r \in Reqs : Arrive(r)
    \/ \E r \in Reqs : FormRaises(r)
    \/ \E r \in Reqs, data \in AppMappings : Receive(r, data)
    \/ \E r \in Reqs : CheckSession(r)
    \/ \E r \in Reqs : Construct(r)
    \/ \E r \in Reqs : ConstructRaises(r)
    \/ \E r \in Reqs, text \in {Reply, <<>>} : SendMessage(r, text)
    \/ \E r \in Reqs : SendMessageRaises(r)
    \/ \E r \in Reqs, ok \in BOOLEAN : SendReply(r, ok)
    \/ \E r \in Reqs : NoTwilio(r)
    \/ \E r \in Reqs : Finish(r)

Spec == Init /\ [][Next]_vars

(***************************************************************************)
(* Properties.                                                             *)
(***************************************************************************)
\* the session objects of user u that the registry holds
HeldFor(u) ==
    {i \in 1..Len(instances) :
        instances[i].user_id = u /\ \E v \in DOMAIN sessions : sessions[v] = i}

C1_Inv ==
    \A u \in Users :
        /\ Cardinality(HeldFor(u)) <= 1
        /\ u \in DOMAIN sessions => HeldFor(u) = {sessions[u]}

C1_Step ==
    \A u \in Users :
        LET called == last' # last /\ last'.op = "get_or_create_session"
                                   /\ last'.user_id = u
            removed == last' # last /\ \/ last'.op = "clear_all_sessions"
                                       \/ /\ last'.op = "delete_session"
                                          /\ last'.user_id = u
        IN  /\ (u \in DOMAIN sessions /\ ~removed) =>
                /\ u \in DOMAIN sessions'
                /\ sessions'[u] = sessions[u]
                /\ called => /\ ~last'.raised
                             /\ last'.result = sessions[u]
                             /\ instances' = instances
            /\ (u \notin DOMAIN sessions /\ called /\ ~last'.raised) =>
                /\ Len(instances') = Len(instances) + 1
                /\ last'.result = Len(instances')
                /\ sessions'[u] = last'.result

\* C1: the registry holds at most one session object per user id, and that
\* object is the entry of the id; a get_or_create_session call for an id that
\* has an entry returns that entry without running the constructor, and the
\* entry stays the same until delete_session of the id or clear_all_sessions,
\* so two calls in sequence return the same object; a call for an id without
\* an entry runs the constructor once and returns the new object.
C1_SameSession == [] C1_Inv /\ [][C1_Step]_vars

\* a second get_or_create_session for +1, after the session of +2 was made,
\* returned the object made by the first
C1_Witness ==
    /\ last.op = "get_or_create_session"
    /\ last.user_id = Num1
    /\ last.result = 1
    /\ Len(instances) = 2
    /\ instances[1].user_id = Num1
    /\ sessions = SetItem(SetItem(<<>>, Num1, 1), Num2, 2)

C3_Inv ==
    /\ last.op = "delete_session" => last.user_id \notin DOMAIN sessions
    /\ last.op = "get_session" =>
        (last.user_id \notin DOMAIN sessions <=> last.result = 0)

C3_Step ==
    (last' # last /\ last'.op = "delete_session") =>
        LET u == last'.user_id
        IN  IF u \notin DOMAIN sessions
            THEN last'.result = FALSE /\ sessions' = sessions
            ELSE /\ last'.result = TRUE
                 /\ DOMAIN sessions' = DOMAIN sessions \ {u}
                 /\ \A v \in DOMAIN sessions' : sessions'[v] = sessions[v]

\* C3: delete_session of an id without an entry returns False and leaves the
\* registry as it was; of an id with an entry it returns True and removes
\* that entry and no other; afterwards the id has no entry, and get_session
\* returns None exactly for ids without an entry.
C3_Delete == [] C3_Inv /\ [][C3_Step]_vars

\* delete_session has removed an entry and another entry is still there
C3_Witness ==
    /\ last.op = "delete_session"
    /\ last.result = TRUE
    /\ DOMAIN sessions # {}

\* the message id or the sender field of a mapping is missing or empty
LacksSidOrFrom(data) ==
    \/ "MessageSid" \notin DOMAIN data
    \/ data["MessageSid"] = <<>>
    \/ "From" \notin DOMAIN data
    \/ data["From"] = <<>>

C2_Inv ==
    \A r \in Reqs :
        (reqs[r].webhook_data # NoResult /\ LacksSidOrFrom(reqs[r].data)) =>
            /\ reqs[r].webhook_data = [status |-> "ignored", type |-> "invalid_data"]
            /\ reqs[r].pc = "done"
            /\ reqs[r].response.code = 200
            /\ reqs[r].response.status = "success"
            /\ reqs[r].chat_session = 0
            /\ reqs[r].lm_calls = <<>>
            /\ reqs[r].sent = <<>>

C2_Step ==
    \A r \in Reqs :
        (reqs'[r].webhook_data # reqs[r].webhook_data /\ LacksSidOrFrom(reqs'[r].data)) =>
            sessions' = sessions /\ instances' = instances

\* C2: a delivery whose MessageSid or From is missing or empty is normalized
\* to the 'ignored' outcome and handle_webhook answers it with status success,
\* having looked up or created no session, called the language model not at
\* all and attempted no send; handling it leaves the registry as it was.
C2_Ignored == [] C2_Inv /\ [][C2_Step]_vars

\* a delivery without MessageSid was answered while a session was registered
C2_Witness ==
    \E r \in Reqs :
        /\ reqs[r].pc = "done"
        /\ reqs[r].webhook_data.status = "ignored"
        /\ "MessageSid" \notin DOMAIN reqs[r].data
        /\ reqs[r].response.status = "success"
        /\ DOMAIN sessions # {}

\* the media count of a mapping is numeric and positive
PositiveCount(data) ==
    /\ "NumMedia" \in DOMAIN data
    /\ IntOk(data["NumMedia"])
    /\ IntVal(data["NumMedia"]) > 0

\* message id and sender id of a mapping are present
HasSidAndSender(data) ==
    /\ "MessageSid" \in DOMAIN data /\ data["MessageSid"] # <<>>
    /\ "From" \in DOMAIN data /\ StripPrefix(data["From"]) # <<>>

\* the indices below n whose MediaUrl field satisfies has(data, key)
UrlIndices(data, n, has(_, _)) == {i \in 0..(n - 1) : has(data, MediaKey(i))}

\* urls lists the MediaUrl fields of the indices idx in index order
ListsInOrder(urls, data, idx) ==
    /\ Len(urls) = Cardinality(idx)
    /\ \A k \in 1..Len(urls) :
        LET i == CHOOSE i \in idx : Cardinality({j \in idx : j < i}) = k - 1
        IN  urls[k] = data[MediaKey(i)]

IsPresent(data, key) == key \in DOMAIN data
IsNonEmpty(data, key) == key \in DOMAIN data /\ data[key] # <<>>

\* C4 as stated: with message id and sender id present and a positive numeric
\* media count N the message is classified 'media' and media_urls lists the
\* present MediaUrl0..MediaUrl(N-1) fields in index order.
C4_Original ==
    (norm_out # NoResult /\ HasSidAndSender(norm_in) /\ PositiveCount(norm_in)) =>
        /\ norm_out.status = "success"
        /\ norm_out.message_type = "media"
        /\ ListsInOrder(norm_out.media_urls, norm_in,
                        UrlIndices(norm_in, IntVal(norm_in["NumMedia"]), IsPresent))

\* C4, amended: with message id and sender id present and a positive numeric
\* media count N, media_urls lists the MediaUrl0..MediaUrl(N-1) fields that
\* are present and not empty, in index order, and the message is classified
\* 'media' exactly when that list is not empty, 'text' otherwise.
C4_MediaUrls ==
    (norm_out # NoResult /\ HasSidAndSender(norm_in) /\ PositiveCount(norm_in)) =>
        /\ norm_out.status = "success"
        /\ ListsInOrder(norm_out.media_urls, norm_in,
                        UrlIndices(norm_in, IntVal(norm_in["NumMedia"]), IsNonEmpty))
        /\ norm_out.message_type = "media" <=> norm_out.media_urls # <<>>
        /\ norm_out.message_type = "text" <=> norm_out.media_urls = <<>>

\* count 2 with MediaUrl0 absent: the list is MediaUrl1 alone, MediaUrl2
\* is beyond the count
C4_Witness ==
    /\ norm_out # NoResult
    /\ norm_out.status = "success"
    /\ "NumMedia" \in DOMAIN norm_in
    /\ norm_in["NumMedia"] = <<"2">>
    /\ "MediaUrl0" \notin DOMAIN norm_in
    /\ "MediaUrl2" \in DOMAIN norm_in
    /\ norm_out.media_urls = <<UrlB>>
    /\ norm_out.message_type = "media"

\* the sender id of the delivery in slot r, once normalized
Sender(r) ==
    IF reqs[r].webhook_data.status = "success"
    THEN reqs[r].webhook_data.sender_id ELSE <<>>

\* a first message of the user of r1 can be taken up in slot r2
CanReceiveSameUser(r1, r2) ==
    ENABLED (\E data \in AppMappings :
                /\ Receive(r2, data)
                /\ reqs'[r2].pc = "get_session"
                /\ reqs'[r2].webhook_data.sender_id = Sender(r1))

\* C5 as stated: while one first-contact request has observed the id absent
\* and has not yet stored its session, a concurrent delivery of the same user
\* can run and reach its own lookup, observe the id absent as well and
\* construct a second session that overwrites or is overwritten.
C5_Original ==
    \A r1, r2 \in Reqs :
        (r1 # r2 /\ reqs[r1].pc = "construct" /\ reqs[r2].pc = "form") =>
            CanReceiveSameUser(r1, r2)

\* C5, amended: handle_webhook runs from the return of request.form() to its
\* own return without suspension, so at most one request is between the
\* lookup and the store; every request uses the session registered for its
\* sender, two requests of one user use the same session object, and every
\* session object constructed is the registered one: none is orphaned.
C5_NoRace ==
    /\ Cardinality({r \in Reqs : reqs[r].pc \in SyncPcs}) <= 1
    /\ \A r \in Reqs :
        reqs[r].chat_session # 0 =>
            /\ Sender(r) \in DOMAIN sessions
            /\ sessions[Sender(r)] = reqs[r].chat_session
    /\ \A r1, r2 \in Reqs :
        (reqs[r1].chat_session # 0 /\ reqs[r2].chat_session # 0
            /\ Sender(r1) = Sender(r2)) =>
                reqs[r1].chat_session = reqs[r2].chat_session
    /\ \A i \in 1..Len(instances) :
        /\ instances[i].user_id \in DOMAIN sessions
        /\ sessions[instances[i].user_id] = i

\* a request of a user was taken up while the first request of that user had
\* not been answered yet, and both use the one session object
C5_Witness ==
    \E r1, r2 \in Reqs :
        /\ r1 # r2
        /\ reqs[r1].pc = "done"
        /\ reqs[r2].pc = "ai"
        /\ reqs[r1].chat_session = 1
        /\ reqs[r2].chat_session = 1
        /\ Len(instances) = 1

\* the request carries the header, the token, the challenge
HasSignature == "X-Twilio-Signature" \in DOMAIN vreq.headers
HasToken == "hub.verify_token" \in DOMAIN vreq.query_params
HasChallenge == "hub.challenge" \in DOMAIN vreq.query_params
TokenIsSecret == HasToken /\ vreq.query_params["hub.verify_token"] = VERIFY_TOKEN
Approved == vresp.code = 200
Denied == vresp.code = 403

\* C6 as stated: a request is approved exactly when the signature header is
\* present or the token equals the configured secret, and is denied with 403
\* when header and token are both absent.
C6_Original ==
    vresp # NoResponse =>
        /\ Approved <=> (HasSignature \/ TokenIsSecret)
        /\ (~HasSignature /\ ~HasToken) => Denied

\* C6, amended: a request is approved exactly when the signature header is
\* present and not empty or the token equals the configured secret; every
\* other request, so one with neither header nor token, is denied with 403.
C6_Approval ==
    vresp # NoResponse =>
        /\ Approved <=>
            \/ HasSignature /\ vreq.headers["X-Twilio-Signature"] # <<>>
            \/ TokenIsSecret
        /\ ~Approved => Denied
        /\ (~HasSignature /\ ~HasToken) => Denied

\* approved on the signature header alone, with a token that is not the secret
C6_Witness ==
    /\ Approved
    /\ HasSignature
    /\ HasToken
    /\ ~TokenIsSecret

\* C7 as stated: token equal to the secret and a challenge c give status 200
\* with body c; a token that does not match gives status 403.
C7_Original ==
    vresp # NoResponse =>
        /\ (TokenIsSecret /\ HasChallenge) =>
            Approved /\ vresp.body = vreq.query_params["hub.challenge"]
        /\ ~TokenIsSecret => Denied

\* C7, amended: for a request without a non-empty signature header, token
\* equal to the secret and a non-empty challenge c give status 200 with body
\* c, token equal to the secret and no or an empty challenge give status 200
\* with body "ok", and a token that does not match gives status 403; with a
\* non-empty signature header the response is status 200 with body "ok".
C7_Challenge ==
    vresp # NoResponse =>
        IF HasSignature /\ vreq.headers["X-Twilio-Signature"] # <<>>
        THEN Approved /\ vresp.body = Ok
        ELSE /\ (TokenIsSecret /\ HasChallenge
                    /\ vreq.query_params["hub.challenge"] # <<>>) =>
                Approved /\ vresp.body = vreq.query_params["hub.challenge"]
             /\ (TokenIsSecret /\ ~(HasChallenge
                    /\ vreq.query_params["hub.challenge"] # <<>>)) =>
                Approved /\ vresp.body = Ok
             /\ ~TokenIsSecret => Denied

\* the challenge "xyz" was echoed
C7_Witness ==
    /\ Approved
    /\ TokenIsSecret
    /\ HasChallenge
    /\ vresp.body = Xyz

\* C8: every answer of handle_webhook is HTTP 200 with a JSON body whose
\* status is success, error or warning, also when request.form(), the session
\* constructor, the language-model call or the send call has failed; a
\* request that is running can always take its next step.
C8_Absorbed ==
    \A r \in Reqs :
        /\ reqs[r].pc = "done" =>
            /\ reqs[r].response.code = 200
            /\ reqs[r].response.status \in {"success", "error", "warning"}
        /\ reqs[r].pc \in SyncPcs =>
            ENABLED (\/ CheckSession(r) \/ Construct(r) \/ ConstructRaises(r)
                     \/ \E text \in {Reply, <<>>} : SendMessage(r, text)
                     \/ SendMessageRaises(r)
                     \/ \E ok \in BOOLEAN : SendReply(r, ok)
                     \/ NoTwilio(r))
        /\ (reqs[r].pc = "form" /\ CanResume) =>
            ENABLED (FormRaises(r) \/ \E data \in AppMappings : Receive(r, data))

\* a failure of the session constructor was answered with 200 and status error
C8_Witness ==
    \E r \in Reqs :
        /\ reqs[r].pc = "done"
        /\ reqs[r].response.code = 200
        /\ reqs[r].response.status = "error"
        /\ reqs[r].response.detail = "session"

\* the language-model call of the request in slot r has failed
LmFailed(r) == Len(reqs[r].lm_calls) = 1 /\ reqs[r].lm_calls[1].raised

\* C9 as stated: after a failed language-model call the apology is the reply
\* and the send to the sender is attempted; the request does not end with an
\* error acknowledgment unless that send fails.
C9_Original ==
    \A r \in Reqs :
        (LmFailed(r) /\ reqs[r].pc = "done") =>
            /\ reqs[r].ai_response = Apology
            /\ Len(reqs[r].sent) = 1
            /\ reqs[r].sent[1].body = Apology
            /\ reqs[r].sent[1].to = WA \o Sender(r)
            /\ reqs[r].response.status = "error" => ~reqs[r].sent[1].ok

\* C9, amended: after a failed language-model call the apology is the reply;
\* when the Twilio client is available the send of the apology to the sender
\* is attempted and the acknowledgment is success or, if that send fails,
\* error; when the Twilio client is not available nothing is sent and the
\* acknowledgment is warning.
C9_Apology ==
    \A r \in Reqs :
        /\ LmFailed(r) => reqs[r].pc \in {"send", "done"} /\ reqs[r].ai_response = Apology
        /\ (LmFailed(r) /\ reqs[r].pc = "done") =>
            IF twilio_client
            THEN /\ Len(reqs[r].sent) = 1
                 /\ reqs[r].sent[1].body = Apology
                 /\ reqs[r].sent[1].to = WA \o Sender(r)
                 /\ reqs[r].response.status =
                        IF reqs[r].sent[1].ok THEN "success" ELSE "error"
            ELSE /\ reqs[r].sent = <<>>
                 /\ reqs[r].response.status = "warning"

\* the apology was sent after a failed language-model call
C9_Witness ==
    \E r \in Reqs :
        /\ LmFailed(r)
        /\ reqs[r].pc = "done"
        /\ Len(reqs[r].sent) = 1
        /\ reqs[r].sent[1].body = Apology
        /\ reqs[r].response.status = "success"

\* C10: a delivery is sent at most one reply attempt; when that attempt fails
\* the request is over and its acknowledgment has status error.
C10_NoRetry ==
    \A r \in Reqs :
        /\ Len(reqs[r].sent) <= 1
        /\ (Len(reqs[r].sent) = 1 /\ ~reqs[r].sent[1].ok) =>
            /\ reqs[r].pc = "done"
            /\ reqs[r].response.code = 200
            /\ reqs[r].response.status = "error"

\* a send failed and the request ended with status error
C10_Witness ==
    \E r \in Reqs :
        /\ reqs[r].pc = "done"
        /\ Len(reqs[r].sent) = 1
        /\ ~reqs[r].sent[1].ok
        /\ reqs[r].response.status = "error"

\* C11: the body of every message sent to the user is the text the language
\* model returned for the message of that request or, when the call raised,
\* the fixed apology, never the text of an exception; a message is sent only
\* after a language-model call of that request, to the sender of the request.
C11_ReplyOrApology ==
    \A r \in Reqs :
        \A k \in 1..Len(reqs[r].sent) :
            /\ Len(reqs[r].lm_calls) = 1
            /\ reqs[r].lm_calls[1].message = reqs[r].data["Body"]
            /\ reqs[r].sent[k].body = reqs[r].ai_response
            /\ reqs[r].sent[k].body # ErrorText
            /\ IF reqs[r].lm_calls[1].raised
               THEN reqs[r].sent[k].body = Apology
               ELSE reqs[r].sent[k].body \in {Reply, <<>>}
            /\ reqs[r].sent[k].to = WA \o Sender(r)

\* the text returned by the language model was sent and accepted
C11_Witness ==
    \E r \in Reqs :
        /\ Len(reqs[r].sent) = 1
        /\ Len(reqs[r].lm_calls) = 1
        /\ ~reqs[r].lm_calls[1].raised
        /\ reqs[r].sent[1].body = Reply
        /\ reqs[r].sent[1].ok

(***************************************************************************)
(* The webhook and health routes together, over a small family of          *)
(* deliveries.                                                             *)
(***************************************************************************)
RouteMappings ==
    {Mapping(SM1, frm, Hello, Absent, Absent, Absent, Absent) :
        frm \in {WA \o Num1, WA \o Num2}}
    \cup {Mapping(SM1, WA \o Num1, Hello, <<"1">>, UrlA, Absent, Absent),
          Mapping(SM1, WA \o Num1, <<>>, <<"0">>, Absent, Absent, Absent),
          Mapping(Absent, WA \o Num1, Hello, Absent, Absent, Absent, Absent)}

\* GET /webhook served by the running application
VerifyRoute ==
    /\ started = "running"
    /\ CanResume
    /\ VerifyWebhook

InitRoutes == Init

NextRoutes ==
    \/ \E r \in Reqs : Arrive(r)
    \/ \E r \in Reqs : FormRaises(r)
    \/ \E r \in Reqs, data \in RouteMappings : Receive(r, data)
    \/ \E r \in Reqs : CheckSession(r)
    \/ \E r \in Reqs : Construct(r)
    \/ \E r \in Reqs : ConstructRaises(r)
    \/ \E r \in Reqs, text \in {Reply, <<>>} : SendMessage(r, text)
    \/ \E r \in Reqs : SendMessageRaises(r)
    \/ \E r \in Reqs, ok \in BOOLEAN : SendReply(r, ok)
    \/ \E r \in Reqs : NoTwilio(r)
    \/ \E r \in Reqs : Finish(r)
    \/ HealthCheck
    \/ VerifyRoute

SpecRoutes == InitRoutes /\ [][NextRoutes]_vars

\* a request that is constructing the session of user u for a text message
Creating(r, u) ==
    /\ reqs[r].pc = "construct"
    /\ reqs[r].webhook_data.message_type = "text"
    /\ reqs[r].webhook_data.message_body # <<>>
    /\ reqs[r].webhook_data.sender_id = u

C12_Step ==
    /\ \A u \in DOMAIN sessions :
        u \in DOMAIN sessions' /\ sessions'[u] = sessions[u]
    /\ Cardinality(DOMAIN sessions') >= Cardinality(DOMAIN sessions)
    /\ \A u \in DOMAIN sessions' \ DOMAIN sessions :
        /\ \E r \in Reqs : Creating(r, u)
        /\ sessions'[u] = Len(instances) + 1
    /\ (health # NoResponse /\ health' # NoResponse) =>
        health'.active_sessions >= health.active_sessions

C12_Inv ==
    \A r \in Reqs :
        \A k \in 1..Len(reqs[r].lm_calls) :
            /\ Sender(r) \in DOMAIN sessions
            /\ reqs[r].lm_calls[k].session = sessions[Sender(r)]

\* C12: an entry of the registry appears only while a text message of its
\* user is handled; no step of the webhook and health routes removes or
\* replaces an entry, so the number of sessions, also as reported by
\* GET /health, never decreases, and every text message of a user is
\* submitted to the session registered for that user.
C12_Held == [] C12_Inv /\ [][C12_Step]_vars

\* with two sessions registered and reported, a later message of the first
\* user was submitted to the first session
C12_Witness ==
    \E r \in Reqs :
        /\ reqs[r].pc = "send"
        /\ Len(reqs[r].lm_calls) = 1
        /\ reqs[r].lm_calls[1].session = 1
        /\ Len(instances) = 2
        /\ health # NoResponse
        /\ health.active_sessions = 2

(***************************************************************************)
(* POST /webhook over deliveries whose media count is no number.           *)
(***************************************************************************)
CoerceMappings ==
    {Mapping(SM1, WA \o Num1, Hello, <<"x">>, UrlA, Absent, Absent),
     Mapping(SM1, WA \o Num2, Hello, <<>>, UrlA, Absent, Absent),
     Mapping(SM1, WA \o Num1, <<>>, <<"x">>, UrlA, Absent, Absent),
     Mapping(Absent, WA \o Num1, Hello, <<"x">>, UrlA, Absent, Absent),
     Mapping(SM1, WA \o Num1, Hello, <<"1">>, UrlA, Absent, Absent)}

InitCoerce == Init

NextCoerce ==
    \/ \E r \in Reqs : Arrive(r)
    \/ \E r \in Reqs : FormRaises(r)
    \/ \E r \in Reqs, data \in CoerceMappings : Receive(r, data)
    \/ \E r \in Reqs : CheckSession(r)
    \/ \E r \in Reqs : Construct(r)
    \/ \E r \in Reqs : ConstructRaises(r)
    \/ \E r \in Reqs, text \in {Reply, <<>>} : SendMessage(r, text)
    \/ \E r \in Reqs : SendMessageRaises(r)
    \/ \E r \in Reqs, ok \in BOOLEAN : SendReply(r, ok)
    \/ \E r \in Reqs : NoTwilio(r)
    \/ \E r \in Reqs : Finish(r)

SpecCoerce == InitCoerce /\ [][NextCoerce]_vars

\* the form of request r was read and its media count is no number
NonNumericCount(r) ==
    /\ reqs[r].webhook_data # NoResult
    /\ "NumMedia" \in DOMAIN reqs[r].data
    /\ ~IntOk(reqs[r].data["NumMedia"])

\* C13 as stated: a mapping whose media count is no number yields the
\* 'error' outcome, the handler answers with status error, and no session
\* is looked up or created and no send is attempted.
C13_Original ==
    \A r \in Reqs :
        NonNumericCount(r) =>
            /\ reqs[r].webhook_data.status = "error"
            /\ reqs[r].pc = "done"
            /\ reqs[r].response.status = "error"
            /\ reqs[r].chat_session = 0
            /\ reqs[r].sent = <<>>

\* C13: a media count that is no number is taken as zero: the outcome is
\* never 'error'; a mapping with message id and sender is normalized as a
\* 'text' message without media URLs and handled as one (session, language
\* model call and send when the body is non-empty, a success acknowledgment
\* otherwise); a mapping without message id or sender is ignored.
C13_Coerced ==
    \A r \in Reqs :
        NonNumericCount(r) =>
            LET w == reqs[r].webhook_data
                req == reqs[r]
            IN  /\ w.status \in {"success", "ignored"}
                /\ (w.status = "ignored") <=> LacksSidOrFrom(req.data)
                /\ (w.status = "ignored") =>
                    /\ req.pc = "done"
                    /\ req.response = Ack("success", "Evento ignorado")
                /\ (w.status = "success") =>
                    /\ w.message_type = "text"
                    /\ w.media_urls = <<>>
                    /\ w.message_body = DictGet(req.data, "Body", <<>>)
                    /\ IF Truthy(w.message_body)
                       THEN /\ req.pc \in SyncPcs \cup {"done"}
                            /\ (req.pc = "done") =>
                                \/ Len(req.lm_calls) = 1
                                \/ req.response = AckCritical("session")
                            /\ (req.pc = "done" /\ twilio_client
                                    /\ Len(req.lm_calls) = 1) =>
                                Len(req.sent) = 1
                       ELSE /\ req.pc = "done"
                            /\ req.response =
                                   Ack("success", "Tipo de mensagem nao suportado")
                            /\ req.chat_session = 0
                            /\ req.sent = <<>>

\* a reply was delivered for a message whose media count is no number and
\* which carries a media URL
C13_Witness ==
    \E r \in Reqs :
        /\ NonNumericCount(r)
        /\ "MediaUrl0" \in DOMAIN reqs[r].data
        /\ reqs[r].pc = "done"
        /\ Len(reqs[r].sent) = 1
        /\ reqs[r].sent[1].ok
        /\ reqs[r].response = Ack("success", "Mensagem processada")

(***************************************************************************)
(* The address normalization of send_text_message                          *)
(* (twilio_service.py:78-82), applied repeatedly to a recipient number.    *)
(***************************************************************************)
Addresses ==
    {prefix \o plus \o number :
        prefix \in {<<>>, WA, WA \o WA, <<"w">>, <<" ">>},
        plus \in {<<>>, <<"+">>, <<"+", "+">>},
        number \in {<<>>, <<"1">>, <<"1", "2">>}}

\* lines 79-82 applied to the recipient number as it now is
NormalizeAddress ==
    /\ Len(addr_out) < MaxApply
    /\ LET recipient_number ==
               IF addr_out = <<>> THEN addr_in ELSE addr_out[Len(addr_out)]
       IN  addr_out' = Append(addr_out, NormalizeRecipient(recipient_number))
    /\ UNCHANGED <<sessions, instances, twilio_client, reqs, last, VERIFY_TOKEN,
                   vreq, vresp, norm_in, norm_out, addr_in, environ, started,
                   health>>

InitAddr ==
    /\ sessions = <<>>
    /\ instances = <<>>
    /\ twilio_client = TRUE
    /\ reqs = [r \in Reqs |-> IdleReq]
    /\ last = NoCall
    /\ VERIFY_TOKEN = Secret
    /\ vreq = VerifyRequest(Absent, Absent, Absent)
    /\ vresp = NoResponse
    /\ norm_in = NoMapping
    /\ norm_out = NoResult
    /\ addr_in \in Addresses
    /\ addr_out = <<>>
    /\ environ = [k \in RequiredVars |->
                     IF k = "VERIFY_TOKEN" THEN VERIFY_TOKEN ELSE EnvValue]
    /\ started = "running"
    /\ health = NoResponse

NextAddr == NormalizeAddress

SpecAddr == InitAddr /\ [][NextAddr]_vars

\* whatsapp:+<digits>
AlreadyPrefixed(a) ==
    /\ StartsWith(a, WA \o <<"+">>)
    /\ Len(a) > Len(WA) + 1
    /\ \A i \in (Len(WA) + 2)..Len(a) : a[i] \in Digits

\* C14: the normalization leaves an address of the form whatsapp:+<digits>
\* unchanged, and for every address a second (and any further) application
\* gives the result of the first.
C14_Idempotent ==
    /\ (addr_out # <<>> /\ AlreadyPrefixed(addr_in)) => addr_out[1] = addr_in
    /\ \A k \in 2..Len(addr_out) : addr_out[k] = addr_out[1]

\* a number without prefix and without plus sign was normalized twice
C14_Witness ==
    /\ addr_in = <<"1", "2">>
    /\ Len(addr_out) = 2
    /\ addr_out[1] = WA \o <<"+", "1", "2">>
    /\ AlreadyPrefixed(addr_out[1])

\* an address of the form whatsapp:+<digits> was normalized
C14_WitnessPrefixed ==
    /\ AlreadyPrefixed(addr_in)
    /\ Len(addr_out) = 2

(***************************************************************************)
(* Startup: the import of the app module (app.py:30-44) with               *)
(* Config.validate (config.py:33-50).                                      *)
(***************************************************************************)
\* chat_manager is not bound: the module did not get past line 34
NoRegistry == <<"<no registry>">>

\* variant of MissingVars: only variables that are not set count as missing
MissingVarsUnsetOnly(env) == {name \in RequiredVars : env[name] = PyNone}

\* config.py:44: [name for name, value in required_vars if not value]
MissingVars(env) == {name \in RequiredVars : ~Truthy(env[name])}

\* app.py:30-44: validate, then the registry and the Twilio client, whose
\* constructor may raise TwilioMessageError
Startup(client_ok) ==
    /\ started = "no"
    /\ IF MissingVars(environ) # {}
       THEN /\ started' = "failed"
            /\ UNCHANGED <<sessions, twilio_client>>
       ELSE /\ started' = "running"
            /\ sessions' = <<>>
            /\ twilio_client' = client_ok
    /\ UNCHANGED <<instances, reqs, last, VERIFY_TOKEN, vreq, vresp, norm_in,
                   norm_out, addr_in, addr_out, environ, health>>

\* every required variable is unset (os.environ.get gives None), set to the
\* empty text, or set
Environments == [RequiredVars -> {PyNone, <<>>, EnvValue}]

InitStartup ==
    /\ environ \in Environments
    /\ started = "no"
    /\ sessions = NoRegistry
    /\ instances = <<>>
    /\ twilio_client = FALSE
    /\ reqs = [r \in Reqs |-> IdleReq]
    /\ last = NoCall
    /\ VERIFY_TOKEN = environ["VERIFY_TOKEN"]
    /\ vreq = VerifyRequest(Absent, Absent, Absent)
    /\ vresp = NoResponse
    /\ norm_in = NoMapping
    /\ norm_out = NoResult
    /\ addr_in = <<>>
    /\ addr_out = <<>>
    /\ health = NoResponse

NextStartup ==
    \/ \E client_ok \in BOOLEAN : Startup(client_ok)
    \/ HealthCheck
    \/ VerifyRoute

SpecStartup == InitStartup /\ [][NextStartup]_vars

MissingOrEmpty(name) == environ[name] = PyNone \/ environ[name] = <<>>

\* C15: once the module has been imported, startup has failed exactly when
\* one of the five required values is missing or empty and the application
\* runs exactly when all five are present; after a failure there is no
\* registry and no route is or can be served.
C15_Startup ==
    started # "no" =>
        /\ started \in {"failed", "running"}
        /\ (started = "failed") <=> (\E name \in RequiredVars : MissingOrEmpty(name))
        /\ (started = "running") <=> (\A name \in RequiredVars : ~MissingOrEmpty(name))
        /\ (started = "failed") =>
            /\ sessions = NoRegistry
            /\ health = NoResponse
            /\ vresp = NoResponse
            /\ ~ENABLED NextStartup
        /\ (started = "running") => sessions = <<>>

\* startup failed with four values set and the sender number empty
C15_Witness ==
    /\ started = "failed"
    /\ environ["TWILIO_WHATSAPP_NUMBER"] = <<>>
    /\ \A name \in RequiredVars \ {"TWILIO_WHATSAPP_NUMBER"} : environ[name] = EnvValue

\* the application came up and served a route
C15_WitnessRunning ==
    /\ started = "running"
    /\ health # NoResponse

\* the normalized message of request r is a text message with a non-empty
\* body and a non-empty sender id
IsTextMessage(r) ==
    /\ reqs[r].webhook_data.status = "success"
    /\ reqs[r].webhook_data.message_type = "text"
    /\ Truthy(reqs[r].webhook_data.message_body)
    /\ Truthy(reqs[r].webhook_data.sender_id)

\* the delivery carries at least one media URL within its media count
CarriesMedia(data) ==
    /\ PositiveCount(data)
    /\ UrlIndices(data, IntVal(data["NumMedia"]), IsNonEmpty) # {}

\* nothing was done for request r
NothingDone(r) ==
    /\ reqs[r].chat_session = 0
    /\ reqs[r].lm_calls = <<>>
    /\ reqs[r].sent = <<>>

C16_Inv ==
    \A r \in Reqs :
        LET req == reqs[r]
            w == reqs[r].webhook_data
        IN  /\ (req.pc \in SyncPcs \/ ~NothingDone(r)) => IsTextMessage(r)
            /\ (w.status = "success"
                    /\ (w.message_type = "media" \/ ~Truthy(w.message_body))) =>
                /\ req.pc = "done"
                /\ req.response.code = 200
                /\ req.response.status = "success"
                /\ NothingDone(r)
            /\ (w # NoResult /\ HasSidAndSender(req.data) /\ CarriesMedia(req.data)) =>
                /\ w.status = "success"
                /\ w.message_type = "media"
            /\ req.pc \in {"get_session", "construct"} => NothingDone(r)
            /\ req.pc = "ai" =>
                req.chat_session # 0 /\ req.lm_calls = <<>> /\ req.sent = <<>>
            /\ req.pc = "send" =>
                req.chat_session # 0 /\ Len(req.lm_calls) = 1 /\ req.sent = <<>>
            /\ req.lm_calls # <<>> =>
                req.chat_session # 0 /\ req.lm_calls[1].session = req.chat_session
            /\ req.sent # <<>> => Len(req.lm_calls) = 1

C16_Step ==
    \A r \in Reqs :
        /\ (reqs[r].pc = "form" /\ reqs'[r].pc = "done") =>
            sessions' = sessions /\ instances' = instances
        /\ (reqs'[r].chat_session # reqs[r].chat_session /\ reqs'[r].chat_session # 0) =>
            /\ reqs[r].pc \in {"get_session", "construct"}
            /\ reqs[r].lm_calls = <<>> /\ reqs[r].sent = <<>>
        /\ (reqs'[r].lm_calls # reqs[r].lm_calls /\ reqs'[r].lm_calls # <<>>) =>
            /\ reqs[r].chat_session # 0
            /\ reqs[r].lm_calls = <<>> /\ reqs[r].sent = <<>>
        /\ (reqs'[r].sent # reqs[r].sent /\ reqs'[r].sent # <<>>) =>
            /\ Len(reqs[r].lm_calls) = 1
            /\ reqs[r].sent = <<>>

\* C16: a session is looked up or created, the language model is called and
\* a reply is sent only for a normalized 'text' message with a non-empty
\* body and a non-empty sender id; a media message or a message with an
\* empty body is acknowledged with status success, the registry unchanged,
\* no language-model call and no send; within one request the session comes
\* first, then the language-model call, then the send.
C16_TextOnly == [] C16_Inv /\ [][C16_Step]_vars

\* a media message was acknowledged while the reply to a text message is
\* about to be sent
C16_Witness ==
    \E r, q \in Reqs :
        /\ reqs[r].pc = "done"
        /\ reqs[r].webhook_data.status = "success"
        /\ reqs[r].webhook_data.message_type = "media"
        /\ reqs[r].response = Ack("success", "Midia recebida")
        /\ reqs[q].pc = "send"
        /\ Len(reqs[q].lm_calls) = 1

\* request r ended because the construction of its session failed
ConstructionFailed(r) ==
    /\ reqs[r].pc = "done"
    /\ reqs[r].response = AckCritical("session")

C17_Inv ==
    \A r \in Reqs :
        /\ reqs[r].pc = "construct" => Sender(r) \notin DOMAIN sessions
        /\ ConstructionFailed(r) =>
            /\ reqs[r].response.code = 200
            /\ reqs[r].response.status = "error"
            /\ reqs[r].chat_session = 0
            /\ reqs[r].lm_calls = <<>>
            /\ reqs[r].ai_response = PyNone
            /\ reqs[r].sent = <<>>
            \* a later text message of the same user would construct again
            /\ (Sender(r) \notin DOMAIN sessions) =>
                \A q \in Reqs :
                    (reqs[q].pc = "get_session" /\ Sender(q) = Sender(r)) =>
                        ENABLED (CheckSession(q) /\ reqs'[q].pc = "construct")

C17_Step ==
    \A r \in Reqs :
        (reqs[r].pc = "construct" /\ reqs'[r].pc = "done") =>
            /\ ConstructionFailed(r)'
            /\ sessions' = sessions
            /\ instances' = instances

\* C17: when the construction of a session fails, the registry is left as it
\* was, with no entry for that user id; the request ends with a status-error
\* acknowledgment, without a language-model call, without an apology and
\* without a send; a later text message of the same user finds no entry and
\* constructs again.
C17_Propagates == [] C17_Inv /\ [][C17_Step]_vars

\* after a failed construction for a user, a later message of the same user
\* got its session constructed
C17_Witness ==
    \E r, q \in Reqs :
        /\ ConstructionFailed(r)
        /\ reqs[q].pc = "ai"
        /\ Sender(q) = Sender(r)
        /\ reqs[q].chat_session = 1
        /\ Len(instances) = 1

\* the form of request r was read and its From field is whatsapp:+<digits>
FromPrefixed(r) ==
    /\ reqs[r].webhook_data # NoResult
    /\ "From" \in DOMAIN reqs[r].data
    /\ AlreadyPrefixed(reqs[r].data["From"])

\* C18: for a delivery whose From field is whatsapp:+<number>, the sender id
\* of the normalized message is the bare +<number>; the session of the
\* request is registered under, and was constructed for, that bare number;
\* and every reply of the request is addressed to the original
\* whatsapp:+<number>.
C18_RoundTrip ==
    \A r \in Reqs :
        (FromPrefixed(r) /\ reqs[r].webhook_data.status = "success") =>
            LET from == reqs[r].data["From"]
                sender_id == reqs[r].webhook_data.sender_id
            IN  /\ from = WA \o sender_id
                /\ sender_id[1] = "+"
                /\ \A i \in 2..Len(sender_id) : sender_id[i] \in Digits
                /\ reqs[r].chat_session # 0 =>
                    /\ sender_id \in DOMAIN sessions
                    /\ sessions[sender_id] = reqs[r].chat_session
                    /\ instances[reqs[r].chat_session].user_id = sender_id
                /\ \A k \in 1..Len(reqs[r].sent) : reqs[r].sent[k].to = from

\* the reply to a message from whatsapp:+2 went out to whatsapp:+2 from the
\* session registered under +2
C18_Witness ==
    \E r \in Reqs :
        /\ reqs[r].data = Mapping(SM1, WA \o Num2, Hello, Absent, Absent, Absent, Absent)
        /\ Num2 \in DOMAIN sessions
        /\ reqs[r].chat_session = sessions[Num2]
        /\ Len(reqs[r].sent) = 1
        /\ reqs[r].sent[1].to = <<"w", "h", "a", "t", "s", "a", "p", "p", ":", "+", "2">>

====
